---- MODULE Spec2Model ----
(***************************************************************************)
(* Model of app.py: the pothole detection service.                         *)
(*                                                                         *)
(* One background thread loads the SAM model (_load_sam_model_blocking),   *)
(* and every /detect request is a flow of its own (detect_pothole) that    *)
(* shares with the others the module globals sam_loaded and predictor, the *)
(* upload folder, the database and the socket.io channel.  A request is    *)
(* split into steps at each access to that shared state, so that the       *)
(* interleavings of concurrent requests are the model's behaviours.        *)
(*                                                                         *)
(* Numbers are fixed point: an area is in cm2 (SquareMetre to the m2), a   *)
(* depth in units of 0.05 mm (20000 to the metre), a confidence in         *)
(* percent.  Time is a tick counter; a clock second is TicksPerSec ticks.  *)
(***************************************************************************)
EXTENDS Integers, Sequences, FiniteSets, TLC

\* ------------------------------------------------------------------
\* Bounds of the model
\* ------------------------------------------------------------------
NumReqs == 2
MaxClock == 2
TicksPerSec == 2
MaxNegative == 3

Reqs == 1..NumReqs

\* ------------------------------------------------------------------
\* Calibration constants of the metrics functions
\* ------------------------------------------------------------------
pixels_per_meter == 100
SquareMetre == 10000
Metre == 20000
LowLimit == 1000
MediumLimit == 3000
DepthFloor == 1000
DepthSlope == 10000
DepthCap == 10000

VARIABLES
    sam_loaded,     \* global sam_loaded
    predictor,      \* global predictor: "None" or "SamPredictor"
    features,       \* the image the shared predictor holds after set_image (0: none)
    loader,         \* position of the background loading thread
    now,            \* the latest reading of the wall clock, in ticks
    req,            \* per request: position, inputs, locals and response
    calls,          \* per request: the side-effecting calls it has completed
    files,          \* upload folder: file name -> content
    potholes,       \* table Pothole, in insertion order
    events,         \* 'new_pothole' events emitted, in order
    listing,        \* body of the last /potholes response
    reply,          \* the last response of /image, /export or /map
    sample          \* the last two results of the metrics functions

vars == <<sam_loaded, predictor, features, loader, now, req, calls, files,
          potholes, events, listing, reply, sample>>

\* ------------------------------------------------------------------
\* Inputs of a /detect request
\* ------------------------------------------------------------------
\* request.files['image']: absent, present without a file name, present
\* with bytes PIL cannot decode, or a decodable image (1, 2 or 3).
\* request.form latitude/longitude: absent or text.
Submissions ==
    { [file |-> "ok",      image |-> 1, latitude |-> "absent", longitude |-> "absent"],
      [file |-> "ok",      image |-> 2, latitude |-> "10",     longitude |-> "20"],
      [file |-> "ok",      image |-> 3, latitude |-> "20",     longitude |-> "10"],
      [file |-> "ok",      image |-> 1, latitude |-> "abc",    longitude |-> "20"],
      [file |-> "absent",  image |-> 0, latitude |-> "10",     longitude |-> "20"],
      [file |-> "noname",  image |-> 0, latitude |-> "10",     longitude |-> "20"],
      [file |-> "corrupt", image |-> 0, latitude |-> "10",     longitude |-> "20"] }

\* float(request.form.get(name, 0.0))
IsFloatText(s) == s \in {"absent", "10", "20"}

FloatOf(s) ==
    CASE s = "absent" -> 0
      [] s = "10" -> 10
      [] s = "20" -> 20
      [] OTHER -> 0

\* What predictor.predict can hand back for the image the predictor holds:
\* no mask at all, one mask of size zero, one mask of the image's
\* resolution with no truthy pixel, or the mask the model finds in that
\* image; `score` is scores[0] in percent.
ImageSize == 307200

FoundMask(img) ==
    CASE img = 1 -> [n |-> 1, size |-> ImageSize, pixels |-> 500,  score |-> 82]
      [] img = 2 -> [n |-> 1, size |-> ImageSize, pixels |-> 3000, score |-> 95]
      [] OTHER   -> [n |-> 1, size |-> ImageSize, pixels |-> 1000, score |-> 60]

Predictions(img) ==
    { [n |-> 0, size |-> 0,         pixels |-> 0, score |-> 0],
      [n |-> 1, size |-> 0,         pixels |-> 0, score |-> 0],
      [n |-> 1, size |-> ImageSize, pixels |-> 0, score |-> 10],
      FoundMask(img) }

NoMask == [n |-> 0, size |-> 0, pixels |-> 0, score |-> 0]

\* ------------------------------------------------------------------
\* Utility functions
\* ------------------------------------------------------------------
Min(a, b) == IF a < b THEN a ELSE b

\* area_pixels / (pixels_per_meter**2)
estimate_area(area_pixels) ==
    (area_pixels * SquareMetre) \div (pixels_per_meter * pixels_per_meter)

\* estimate_depth without the cap
estimate_depth_Uncapped(area_m2) == DepthFloor + (area_m2 * DepthSlope) \div SquareMetre

\* 0.05 + min(area_m2 * 0.5, 0.5): floor 0.05 m, slope 0.5 m per m2, cap 0.5 m
estimate_depth(area_m2) ==
    DepthFloor + Min((area_m2 * DepthSlope) \div SquareMetre, DepthCap)

\* determine_severity with the limits taken into the lower tier
determine_severity_Inclusive(area_m2) ==
    IF area_m2 <= LowLimit THEN "low"
    ELSE IF area_m2 <= MediumLimit THEN "medium"
    ELSE "high"

determine_severity(area_m2) ==
    IF area_m2 < LowLimit THEN "low"
    ELSE IF area_m2 < MediumLimit THEN "medium"
    ELSE "high"

\* overlay_image: the image with the mask's pixels recoloured
overlay_image(image_np, mask) == [image |-> image_np, mask |-> mask]

\* timestamp_utc.strftime('%Y%m%d_%H%M%S'): the clock second of a time
strftime(t) == t \div TicksPerSec

\* f"pothole_{...}.jpg"
FileName(t) == <<"pothole", strftime(t)>>

\* timestamp_utc.isoformat(): second and fraction, at full resolution
isoformat(t) == <<t \div TicksPerSec, t % TicksPerSec>>

\* ------------------------------------------------------------------
\* Responses of /detect
\* ------------------------------------------------------------------
NoResponse ==
    [code |-> 0, error |-> "", success |-> FALSE, pothole_id |-> 0, severity |-> "",
     area_m2 |-> 0, depth_meters |-> 0, confidence |-> 0, image_url |-> <<>>]

\* jsonify({'error': msg}), code
ErrorResponse(code, msg) == [NoResponse EXCEPT !.code = code, !.error = msg]

\* an exception that leaves the view function: Flask answers 500
Raised(what) == ErrorResponse(500, what)

\* jsonify({'success': False})
NoDetectionResponse == [NoResponse EXCEPT !.code = 200]

\* ------------------------------------------------------------------
\* Initial state: initialize_app has run, the loader thread is started
\* ------------------------------------------------------------------
IdleReq ==
    [pc |-> "idle", image_np |-> 0, latitude |-> 0, longitude |-> 0,
     mask |-> NoMask, confidence |-> 0, area_m2 |-> 0, severity |-> "",
     depth_meters |-> 0, timestamp_utc |-> 0, filename |-> <<>>,
     pothole_id |-> 0, response |-> NoResponse]

\* no read request answered yet
NoReply == [route |-> "", arg |-> <<>>, code |-> 0, body |-> <<>>]

\* lines 186-189 on a pixel count: area, severity and depth
Metrics(area_pixels) ==
    [pixels |-> area_pixels,
     area_m2 |-> estimate_area(area_pixels),
     severity |-> determine_severity(estimate_area(area_pixels)),
     depth_meters |-> estimate_depth(estimate_area(area_pixels))]

Init ==
    /\ sam_loaded = FALSE
    /\ predictor = "None"
    /\ features = 0
    /\ loader = "started"
    /\ now = 0
    /\ req = [r \in Reqs |-> IdleReq]
    /\ calls = [r \in Reqs |-> {}]
    /\ files = {}
    /\ potholes = <<>>
    /\ events = <<>>
    /\ listing = <<>>
    /\ reply = NoReply
    /\ sample = <<Metrics(0), Metrics(0)>>

\* ------------------------------------------------------------------
\* The background loader thread
\* ------------------------------------------------------------------
\* if sam_loaded: return True
LoadBegin ==
    /\ loader = "started"
    /\ loader' = IF sam_loaded THEN "done" ELSE "loading"
    /\ UNCHANGED <<reply, sample, sam_loaded, predictor, features, now, req, calls, files,
                   potholes, events, listing>>

\* LoadFail with the flag set on the way out of the handler
LoadFail_SetsFlag ==
    /\ loader = "loading"
    /\ loader' = "failed"
    /\ sam_loaded' = TRUE
    /\ UNCHANGED <<reply, sample, predictor, features, now, req, calls, files,
                   potholes, events, listing>>

\* the download, the registry call or SamPredictor raises: return False
LoadFail ==
    /\ loader = "loading"
    /\ loader' = "failed"
    /\ UNCHANGED <<reply, sample, sam_loaded, predictor, features, now, req, calls, files,
                   potholes, events, listing>>

\* LoadAssign with the flag raised ahead of the assignment
LoadAssign_FlagFirst ==
    /\ loader = "loading"
    /\ sam_loaded' = TRUE
    /\ loader' = "assigned"
    /\ UNCHANGED <<reply, sample, predictor, features, now, req, calls, files,
                   potholes, events, listing>>

\* predictor = SamPredictor(sam)
LoadAssign ==
    /\ loader = "loading"
    /\ predictor' = "SamPredictor"
    /\ loader' = "assigned"
    /\ UNCHANGED <<reply, sample, sam_loaded, features, now, req, calls, files,
                   potholes, events, listing>>

\* sam_loaded = True; return True
LoadFinish ==
    /\ loader = "assigned"
    /\ sam_loaded' = TRUE
    /\ loader' = "done"
    /\ UNCHANGED <<reply, sample, predictor, features, now, req, calls, files,
                   potholes, events, listing>>

\* ------------------------------------------------------------------
\* detect_pothole, one step per access to shared state
\* ------------------------------------------------------------------
\* return: the response goes out and the locals of the call are gone
Finish(r, resp) == req' = [req EXCEPT ![r] = [IdleReq EXCEPT !.pc = "done", !.response = resp]]

\* ReceiveOutcome without the readiness check
ReceiveOutcome_Unchecked(ready, s) ==
    IF s.file = "absent" THEN ErrorResponse(400, "No image uploaded")
    ELSE IF s.file = "noname" THEN ErrorResponse(400, "No image selected")
    ELSE IF ~IsFloatText(s.latitude) \/ ~IsFloatText(s.longitude) THEN Raised("float")
    ELSE IF s.file = "corrupt" THEN Raised("Image.open")
    ELSE NoResponse

\* lines 155-168: readiness check, validation, parsing and decoding
ReceiveOutcome(ready, s) ==
    IF ~ready THEN ErrorResponse(500, "SAM not loaded")
    ELSE IF s.file = "absent" THEN ErrorResponse(400, "No image uploaded")
    ELSE IF s.file = "noname" THEN ErrorResponse(400, "No image selected")
    ELSE IF ~IsFloatText(s.latitude) \/ ~IsFloatText(s.longitude) THEN Raised("float")
    ELSE IF s.file = "corrupt" THEN Raised("Image.open")
    ELSE NoResponse

\* Requests are interchangeable: they are numbered in the order they arrive.
Receive(r, s) ==
    /\ req[r].pc = "idle"
    /\ \A q \in Reqs : q < r => req[q].pc # "idle"
    /\ LET out == ReceiveOutcome(sam_loaded, s) IN
       IF out # NoResponse
       THEN Finish(r, out)
       ELSE req' = [req EXCEPT ![r].pc = "received",
                               ![r].latitude = FloatOf(s.latitude),
                               ![r].longitude = FloatOf(s.longitude),
                               ![r].image_np = s.image]
    /\ UNCHANGED <<reply, sample, sam_loaded, predictor, features, loader, now, calls, files,
                   potholes, events, listing>>

\* SetImage with a handler that marks the model unloaded when the call fails
SetImage_MarksUnloaded(r) ==
    /\ req[r].pc = "received"
    /\ IF predictor = "None"
       THEN /\ Finish(r, Raised("NoneType"))
            /\ UNCHANGED <<features, calls, sam_loaded>>
       ELSE \/ /\ features' = req[r].image_np
               /\ req' = [req EXCEPT ![r].pc = "segmenting"]
               /\ calls' = [calls EXCEPT ![r] = @ \cup {"set_image"}]
               /\ UNCHANGED sam_loaded
            \/ /\ Finish(r, Raised("set_image"))
               /\ sam_loaded' = FALSE
               /\ UNCHANGED <<features, calls>>
    /\ UNCHANGED <<reply, sample, predictor, loader, now, files, potholes, events, listing>>

\* line 170: predictor.set_image(image_np); on a predictor that is still
\* None the call is an AttributeError
SetImage(r) ==
    /\ req[r].pc = "received"
    /\ IF predictor = "None"
       THEN /\ Finish(r, Raised("NoneType"))
            /\ UNCHANGED <<features, calls>>
       ELSE \/ /\ features' = req[r].image_np
               /\ req' = [req EXCEPT ![r].pc = "segmenting"]
               /\ calls' = [calls EXCEPT ![r] = @ \cup {"set_image"}]
            \/ /\ Finish(r, Raised("set_image"))
               /\ UNCHANGED <<features, calls>>
    /\ UNCHANGED <<reply, sample, sam_loaded, predictor, loader, now, files, potholes, events, listing>>

\* lines 175-189: predictor.predict, the mask check and the metrics
Measured(q, m) ==
    [q EXCEPT !.pc = "measured",
              !.mask = m,
              !.confidence = m.score,
              !.area_m2 = estimate_area(m.pixels),
              !.severity = determine_severity(estimate_area(m.pixels)),
              !.depth_meters = estimate_depth(estimate_area(m.pixels))]

\* len(masks)==0 or masks[0].size==0
NoMasks(m) == m.n = 0 \/ m.size = 0

Predict(r) ==
    /\ req[r].pc = "segmenting"
    /\ \/ \E m \in Predictions(features) :
            /\ calls' = [calls EXCEPT ![r] = @ \cup {"predict"}]
            /\ IF NoMasks(m)
               THEN Finish(r, NoDetectionResponse)
               ELSE req' = [req EXCEPT ![r] = Measured(@, m)]
       \/ /\ Finish(r, Raised("predict"))
          /\ UNCHANGED calls
    /\ UNCHANGED <<reply, sample, sam_loaded, predictor, features, loader, now, files,
                   potholes, events, listing>>

\* lines 191-196: the time-derived file name and the overlay file
WriteFile(name, content) ==
    {f \in files : f.name # name} \cup {[name |-> name, content |-> content]}

\* datetime.now(timezone.utc): the clock is read here and nowhere else, so
\* the time that passes between two readings shows as their difference
ClockReadings == now..MaxClock

\* Save that leaves the file to be written later
Save_NoWrite(r) ==
    /\ req[r].pc = "measured"
    /\ \E t \in ClockReadings :
          /\ now' = t
          /\ \/ /\ req' = [req EXCEPT ![r].pc = "saved",
                                      ![r].timestamp_utc = t,
                                      ![r].filename = FileName(t)]
                /\ UNCHANGED <<files, calls>>
             \/ /\ Finish(r, Raised("save"))
                /\ UNCHANGED <<files, calls>>
    /\ UNCHANGED <<reply, sample, sam_loaded, predictor, features, loader, potholes, events, listing>>

Save(r) ==
    /\ req[r].pc = "measured"
    /\ \E t \in ClockReadings :
          /\ now' = t
          /\ \/ /\ req' = [req EXCEPT ![r].pc = "saved",
                                      ![r].timestamp_utc = t,
                                      ![r].filename = FileName(t)]
                /\ files' = WriteFile(FileName(t),
                                      overlay_image(req[r].image_np, req[r].mask))
                /\ calls' = [calls EXCEPT ![r] = @ \cup {"save"}]
             \/ /\ Finish(r, Raised("save"))
                /\ UNCHANGED <<files, calls>>
    /\ UNCHANGED <<reply, sample, sam_loaded, predictor, features, loader, potholes, events, listing>>

\* lines 198-206: Pothole(...), db.session.add, db.session.commit
NewPothole(q, id) ==
    [id |-> id, latitude |-> q.latitude, longitude |-> q.longitude,
     severity |-> q.severity, area |-> q.area_m2, depth_meters |-> q.depth_meters,
     image_path |-> q.filename, confidence |-> q.confidence,
     timestamp |-> q.timestamp_utc, status |-> "reported"]

\* the primary key the database assigns
NextId == Len(potholes) + 1

\* Commit that takes a Report of the same place and measures as already there
SameFinding(p, q) ==
    /\ p.latitude = q.latitude
    /\ p.longitude = q.longitude
    /\ p.area = q.area_m2
    /\ p.confidence = q.confidence

Commit_Deduplicating(r) ==
    /\ req[r].pc = "saved"
    /\ \/ /\ IF \E i \in 1..Len(potholes) : SameFinding(potholes[i], req[r])
             THEN LET i == CHOOSE i \in 1..Len(potholes) : SameFinding(potholes[i], req[r])
                  IN /\ UNCHANGED potholes
                     /\ req' = [req EXCEPT ![r].pc = "committed", ![r].pothole_id = i]
             ELSE /\ potholes' = Append(potholes, NewPothole(req[r], NextId))
                  /\ req' = [req EXCEPT ![r].pc = "committed", ![r].pothole_id = NextId]
          /\ calls' = [calls EXCEPT ![r] = @ \cup {"commit"}]
       \/ /\ Finish(r, Raised("commit"))
          /\ UNCHANGED <<potholes, calls>>
    /\ UNCHANGED <<reply, sample, sam_loaded, predictor, features, loader, now, files, events, listing>>

\* Commit whose failure comes after the row has reached the table
Commit_FailsAfterWrite(r) ==
    /\ req[r].pc = "saved"
    /\ \/ /\ potholes' = Append(potholes, NewPothole(req[r], NextId))
          /\ req' = [req EXCEPT ![r].pc = "committed", ![r].pothole_id = NextId]
          /\ calls' = [calls EXCEPT ![r] = @ \cup {"commit"}]
       \/ /\ potholes' = Append(potholes, NewPothole(req[r], NextId))
          /\ Finish(r, Raised("commit"))
          /\ UNCHANGED calls
    /\ UNCHANGED <<reply, sample, sam_loaded, predictor, features, loader, now, files, events, listing>>

Commit(r) ==
    /\ req[r].pc = "saved"
    /\ \/ /\ potholes' = Append(potholes, NewPothole(req[r], NextId))
          /\ req' = [req EXCEPT ![r].pc = "committed", ![r].pothole_id = NextId]
          /\ calls' = [calls EXCEPT ![r] = @ \cup {"commit"}]
       \/ /\ Finish(r, Raised("commit"))
          /\ UNCHANGED <<potholes, calls>>
    /\ UNCHANGED <<reply, sample, sam_loaded, predictor, features, loader, now, files, events, listing>>

\* Payload with the coordinates in each other's place
Payload_Swapped(q) ==
    [id |-> q.pothole_id, latitude |-> q.longitude, longitude |-> q.latitude,
     severity |-> q.severity, area |-> q.area_m2, depth_meters |-> q.depth_meters,
     confidence |-> q.confidence, timestamp |-> isoformat(q.timestamp_utc)]

\* lines 208-227: socketio.emit and the success response
Payload(q) ==
    [id |-> q.pothole_id, latitude |-> q.latitude, longitude |-> q.longitude,
     severity |-> q.severity, area |-> q.area_m2, depth_meters |-> q.depth_meters,
     confidence |-> q.confidence, timestamp |-> isoformat(q.timestamp_utc)]

SuccessResponse(q) ==
    [code |-> 200, error |-> "", success |-> TRUE, pothole_id |-> q.pothole_id,
     severity |-> q.severity, area_m2 |-> q.area_m2, depth_meters |-> q.depth_meters,
     confidence |-> q.confidence, image_url |-> <<"/image", q.filename>>]

Emit(r) ==
    /\ req[r].pc = "committed"
    /\ \/ /\ events' = Append(events, Payload(req[r]))
          /\ Finish(r, SuccessResponse(req[r]))
          /\ calls' = [calls EXCEPT ![r] = @ \cup {"emit"}]
       \/ /\ Finish(r, Raised("emit"))
          /\ UNCHANGED <<events, calls>>
    /\ UNCHANGED <<reply, sample, sam_loaded, predictor, features, loader, now, files, potholes, listing>>

\* ------------------------------------------------------------------
\* get_potholes: every row, order_by(timestamp desc), as to_dict
\* ------------------------------------------------------------------
to_dict(p) ==
    [id |-> p.id, latitude |-> p.latitude, longitude |-> p.longitude,
     severity |-> p.severity, area |-> p.area, depth_meters |-> p.depth_meters,
     confidence |-> p.confidence, timestamp |-> isoformat(p.timestamp),
     status |-> p.status]

\* the orders of rows the database may answer with: rows of equal
\* timestamp come in either order
RowOrders(n) == {f \in [1..n -> 1..n] : \A i, j \in 1..n : i # j => f[i] # f[j]}

\* OrderedDesc with the order turned round: oldest first
OrderedAsc(rows, f) ==
    \A i, j \in 1..Len(rows) : i < j => rows[f[i]].timestamp <= rows[f[j]].timestamp

OrderedDesc(rows, f) ==
    \A i, j \in 1..Len(rows) : i < j => rows[f[i]].timestamp >= rows[f[j]].timestamp

get_potholes ==
    /\ \E f \in RowOrders(Len(potholes)) :
          /\ OrderedDesc(potholes, f)
          /\ listing' = [i \in 1..Len(potholes) |-> to_dict(potholes[f[i]])]
    /\ UNCHANGED <<reply, sample, sam_loaded, predictor, features, loader, now, req, calls, files,
                   potholes, events>>

\* ------------------------------------------------------------------
\* Specification
\* ------------------------------------------------------------------
Next ==
    \/ LoadBegin
    \/ LoadFail
    \/ LoadAssign
    \/ LoadFinish
    \/ \E r \in Reqs : \E s \in Submissions : Receive(r, s)
    \/ \E r \in Reqs : SetImage(r)
    \/ \E r \in Reqs : Predict(r)
    \/ \E r \in Reqs : Save(r)
    \/ \E r \in Reqs : Commit(r)
    \/ \E r \in Reqs : Emit(r)
    \/ get_potholes

Spec == Init /\ [][Next]_vars

\* ------------------------------------------------------------------
\* The metrics functions on their own: estimate_area, determine_severity
\* and estimate_depth applied to pixel counts below, at and above zero, at
\* the tier limits and at and beyond the depth cap
\* ------------------------------------------------------------------
MetricPixels ==
    (-MaxNegative..1) \cup
    {499, 500, 999, 1000, 1001, 2999, 3000, 3001, 9999, 10000, 10001, 100000}

Measure(p) ==
    /\ sample' = <<sample[2], Metrics(p)>>
    /\ UNCHANGED <<sam_loaded, predictor, features, loader, now, req, calls, files,
                   potholes, events, listing, reply>>

NextMetrics == \E p \in MetricPixels : Measure(p)

MetricsSpec == Init /\ [][NextMetrics]_vars

\* ------------------------------------------------------------------
\* The read paths /image, /export and /map, and the upload folder losing
\* a file from outside the program
\* ------------------------------------------------------------------
\* abort(404)
NotFound(route, arg) == [route |-> route, arg |-> arg, code |-> 404, body |-> <<>>]

\* the file names a request can ask for
FileNames ==
    {FileName(t) : t \in 0..MaxClock} \cup {<<"pothole_report", id>> : id \in 1..NumReqs}

\* os.path.exists
Exists(name) == \E f \in files : f.name = name

\* lines 234-239: the file of that name, or 404
get_image(filename) ==
    /\ reply' = IF Exists(filename)
                THEN [route |-> "image", arg |-> filename, code |-> 200,
                      body |-> <<CHOOSE f \in files : f.name = filename>>]
                ELSE NotFound("image", filename)
    /\ UNCHANGED <<sam_loaded, predictor, features, loader, now, req, calls, files,
                   potholes, events, listing, sample>>

\* f"{x:.2f}" of an area: hundredths of a square metre, the half rounded up
FormatArea(area) == (100 * area + SquareMetre \div 2) \div SquareMetre

\* f"{x:.2f}" of a depth: hundredths of a metre, the half rounded up
FormatDepth(depth) == (100 * depth + Metre \div 2) \div Metre

\* f"{confidence*100:.1f}": tenths of a percent
FormatConfidence(confidence) == 10 * confidence

\* lines 251-258: the text cells of the document
TextCells(p) ==
    [id |-> p.id, latitude |-> p.latitude, longitude |-> p.longitude,
     severity |-> p.severity, area |-> FormatArea(p.area),
     depth |-> FormatDepth(p.depth_meters),
     confidence |-> FormatConfidence(p.confidence),
     timestamp |-> strftime(p.timestamp)]

\* The document with the image embedded whether or not the file is there:
\* pdf.image raises on a missing file
Document_Unguarded(p) ==
    IF Exists(p.image_path)
    THEN [code |-> 200, text |-> TextCells(p),
          image |-> {f.content : f \in {g \in files : g.name = p.image_path}}]
    ELSE [code |-> 500, text |-> TextCells(p), image |-> {}]

\* lines 246-262: the text cells, and the overlay if its file exists
Document(p) ==
    [code |-> 200, text |-> TextCells(p),
     image |-> {f.content : f \in {g \in files : g.name = p.image_path}}]

\* export_pdf that marks the Report as exported
export_pdf_MarksExported(pothole_id) ==
    IF pothole_id \notin 1..Len(potholes)
    THEN /\ reply' = NotFound("export", <<pothole_id>>)
         /\ UNCHANGED <<sam_loaded, predictor, features, loader, now, req, calls,
                        files, potholes, events, listing, sample>>
    ELSE LET d == Document(potholes[pothole_id]) IN
         /\ reply' = [route |-> "export", arg |-> <<pothole_id>>, code |-> d.code,
                      body |-> <<[text |-> d.text, image |-> d.image]>>]
         /\ potholes' = [potholes EXCEPT ![pothole_id].status = "exported"]
         /\ files' = WriteFile(<<"pothole_report", pothole_id>>,
                               [text |-> d.text, image |-> d.image])
         /\ UNCHANGED <<sam_loaded, predictor, features, loader, now, req, calls,
                        events, listing, sample>>

\* lines 241-265: db.session.get, 404 for no row, else the document, written
\* into the upload folder and sent
export_pdf(pothole_id) ==
    IF pothole_id \notin 1..Len(potholes)
    THEN /\ reply' = NotFound("export", <<pothole_id>>)
         /\ UNCHANGED <<sam_loaded, predictor, features, loader, now, req, calls,
                        files, potholes, events, listing, sample>>
    ELSE LET d == Document(potholes[pothole_id]) IN
         /\ reply' = [route |-> "export", arg |-> <<pothole_id>>, code |-> d.code,
                      body |-> <<[text |-> d.text, image |-> d.image]>>]
         /\ IF d.code = 200
            THEN files' = WriteFile(<<"pothole_report", pothole_id>>,
                                    [text |-> d.text, image |-> d.image])
            ELSE UNCHANGED files
         /\ UNCHANGED <<sam_loaded, predictor, features, loader, now, req, calls,
                        potholes, events, listing, sample>>

\* line 270: the default centre (40.7128, -74.0060), in whole degrees as the
\* coordinates of the Reports are
DefaultCenter == <<40, -74>>

\* line 277: red for high, orange for medium, green otherwise
Color(severity) ==
    IF severity = "high" THEN "red" ELSE IF severity = "medium" THEN "orange" ELSE "green"

\* line 278: one marker per row
Marker(p) ==
    [location |-> <<p.latitude, p.longitude>>, id |-> p.id, severity |-> p.severity,
     color |-> Color(p.severity)]

\* lines 267-279: Pothole.query.all() in the order the database answers,
\* the centre on the first row or the default, a marker for every row
show_map ==
    /\ \E f \in RowOrders(Len(potholes)) :
          reply' = [route |-> "map", arg |-> <<>>, code |-> 200,
                    body |-> <<[center |-> IF Len(potholes) > 0
                                           THEN <<potholes[f[1]].latitude,
                                                  potholes[f[1]].longitude>>
                                           ELSE DefaultCenter,
                                markers |-> [i \in 1..Len(potholes) |->
                                                Marker(potholes[f[i]])]]>>]
    /\ UNCHANGED <<sam_loaded, predictor, features, loader, now, req, calls, files,
                   potholes, events, listing, sample>>

\* a file of the upload folder removed from outside the program
DeleteOverlay(name) ==
    /\ Exists(name)
    /\ files' = {f \in files : f.name # name}
    /\ UNCHANGED <<sam_loaded, predictor, features, loader, now, req, calls,
                   potholes, events, listing, reply, sample>>

\* the submissions whose Reports the read paths are asked for
ReadSubmissions == {s \in Submissions : s.image = 2}

\* the program once the loader thread has ended with the model loaded
Loaded ==
    /\ sam_loaded = TRUE
    /\ predictor = "SamPredictor"
    /\ features = 0
    /\ loader = "done"
    /\ now = 0
    /\ req = [r \in Reqs |-> IdleReq]
    /\ calls = [r \in Reqs |-> {}]
    /\ files = {}
    /\ potholes = <<>>
    /\ events = <<>>
    /\ listing = <<>>
    /\ reply = NoReply
    /\ sample = <<Metrics(0), Metrics(0)>>

NextReads ==
    \/ \E r \in Reqs : \E s \in ReadSubmissions : Receive(r, s)
    \/ \E r \in Reqs : SetImage(r)
    \/ \E r \in Reqs : Predict(r)
    \/ \E r \in Reqs : Save(r)
    \/ \E r \in Reqs : Commit(r)
    \/ \E r \in Reqs : Emit(r)
    \/ get_potholes
    \/ \E name \in FileNames : get_image(name)
    \/ \E id \in 0..(NumReqs + 1) : export_pdf(id)
    \/ show_map
    \/ \E name \in FileNames : DeleteOverlay(name)

SpecReads == Loaded /\ [][NextReads]_vars

\* ------------------------------------------------------------------
\* How a response reads in the terms of the error taxonomy
\* ------------------------------------------------------------------
Outcome(resp) ==
    IF resp.code = 0 THEN "none"
    ELSE IF resp.success THEN "Success"
    ELSE IF resp.code = 200 THEN "NoDetection"
    ELSE IF resp.error = "SAM not loaded" THEN "ModelNotReady"
    ELSE IF resp.code = 400 THEN "InvalidInput"
    ELSE "Failed"

Done(r) == req[r].pc = "done"

\* the request holds a mask that passed the check of line 181
PastMaskCheck(r) == req[r].pc \in {"measured", "saved", "committed"}

Committers == {r \in Reqs : "commit" \in calls[r]}
Emitters == {r \in Reqs : "emit" \in calls[r]}

EventsOf(id) == {k \in 1..Len(events) : events[k].id = id}
ReportsOf(id) == {i \in 1..Len(potholes) : potholes[i].id = id}

\* ------------------------------------------------------------------
\* C1: a request whose adapter result is zero masks or an empty mask (a
\* mask of size zero, or a mask of the image's resolution with no truthy
\* pixel) ends with the 'no detection' response: it never gets past the
\* mask check, and no Report is stored for an empty mask.
\* ------------------------------------------------------------------
EmptyMask(m) == m.n = 0 \/ m.size = 0 \/ m.pixels = 0

C1_EmptyMaskIsNoDetection ==
    /\ \A r \in Reqs : PastMaskCheck(r) => ~EmptyMask(req[r].mask)
    /\ \A i \in 1..Len(potholes) : potholes[i].area > 0

\* ------------------------------------------------------------------
\* C2: once its Report is committed, a request that has terminated has the
\* success response carrying that Report, also when the publish failed.
\* ------------------------------------------------------------------
C2_CommittedMeansSuccess ==
    \A r \in Reqs :
        (Done(r) /\ "commit" \in calls[r]) =>
            /\ Outcome(req[r].response) = "Success"
            /\ ReportsOf(req[r].response.pothole_id) # {}

\* ------------------------------------------------------------------
\* C3: no two committed Reports share an image_path.
\* ------------------------------------------------------------------
C3_DistinctImagePaths ==
    \A i, j \in 1..Len(potholes) :
        i # j => potholes[i].image_path # potholes[j].image_path

\* ------------------------------------------------------------------
\* C4: at most one segmentation (set_image ... predict) is in flight, and
\* the mask a request measures was computed from its own image: it is one
\* of the results the model has for that image.
\* ------------------------------------------------------------------
InFlight == {r \in Reqs : req[r].pc = "segmenting"}

C4_SerializedSegmentation ==
    /\ Cardinality(InFlight) <= 1
    /\ \A r \in Reqs : PastMaskCheck(r) => req[r].mask \in Predictions(req[r].image_np)

\* ------------------------------------------------------------------
\* C5: a request that reads the readiness flag as false is answered in that
\* very step with the 'SAM not loaded' rejection, and the step changes
\* nothing else: no model call, no file, no Report, no event; a request so
\* rejected has completed no side-effecting call.
\* ------------------------------------------------------------------
Arrives(r) == req[r].pc = "idle" /\ req'[r].pc # "idle"

C5_RejectedAtOnce ==
    \A r \in Reqs :
        (Arrives(r) /\ ~sam_loaded) =>
            /\ req'[r].pc = "done"
            /\ Outcome(req'[r].response) = "ModelNotReady"
            /\ UNCHANGED <<features, files, potholes, events, calls>>

C5_NotReadyNoEffects ==
    /\ [](\A r \in Reqs :
            Outcome(req[r].response) = "ModelNotReady" =>
                Done(r) /\ calls[r] = {})
    /\ [][C5_RejectedAtOnce]_vars

C5_Witness ==
    \E r \in Reqs : Done(r) /\ Outcome(req[r].response) = "ModelNotReady"

\* ------------------------------------------------------------------
\* C6 as stated: once no request stands between its commit and its emit,
\* every committed Report has exactly one event.
\* ------------------------------------------------------------------
C6_ExactlyOneEventPerReport ==
    (\A r \in Reqs : req[r].pc # "committed") =>
        \A i \in 1..Len(potholes) : Cardinality(EventsOf(potholes[i].id)) = 1

\* C6 as amended: at most one event per committed Report, exactly one for
\* a request whose emit returned and none for one whose emit raised; an
\* event exists only for a Report that is committed, and its payload equals
\* the stored fields of that Report; a request that committed no Report
\* publishes no event.
PayloadMatches(e, p) ==
    /\ e.id = p.id
    /\ e.latitude = p.latitude
    /\ e.longitude = p.longitude
    /\ e.severity = p.severity
    /\ e.area = p.area
    /\ e.depth_meters = p.depth_meters
    /\ e.confidence = p.confidence
    /\ e.timestamp = isoformat(p.timestamp)

C6_EventsMatchReports ==
    /\ \A k \in 1..Len(events) :
          /\ \E i \in 1..Len(potholes) : PayloadMatches(events[k], potholes[i])
          /\ EventsOf(events[k].id) = {k}
    /\ Emitters \subseteq Committers
    /\ Len(events) = Cardinality(Emitters)
    /\ \A r \in Reqs :
          Done(r) =>
             /\ Outcome(req[r].response) = "Success" <=> r \in Emitters
             /\ r \in Emitters =>
                   Cardinality(EventsOf(req[r].response.pothole_id)) = 1
             /\ req[r].response.error = "emit" =>
                   r \in Committers /\ Len(events) < Len(potholes)

C6_Witness ==
    /\ Len(potholes) = 2
    /\ Len(events) = 1
    /\ \E r \in Reqs : Done(r) /\ Outcome(req[r].response) = "Success"
    /\ \E r \in Reqs : Done(r) /\ req[r].response.error = "emit"

\* ------------------------------------------------------------------
\* C7: a listing is always a complete snapshot of the table: for some n it
\* holds exactly the first n Reports committed, each whole, with n distinct
\* ids, newest first; and a listing taken after N creates holds N Reports.
\* ------------------------------------------------------------------
IsoGeq(a, b) == a[1] > b[1] \/ (a[1] = b[1] /\ a[2] >= b[2])

NewestFirst(rows) ==
    \A i, j \in 1..Len(rows) : i < j => IsoGeq(rows[i].timestamp, rows[j].timestamp)

SnapshotOf(rows, n) ==
    /\ Len(rows) = n
    /\ {rows[i] : i \in 1..n} = {to_dict(potholes[i]) : i \in 1..n}
    /\ \A i, j \in 1..n : i # j => rows[i].id # rows[j].id

C7_ListingTaken ==
    listing' # listing =>
        /\ SnapshotOf(listing', Len(potholes))
        /\ Len(listing') = Cardinality(Committers)

C7_ListingIsSnapshot ==
    /\ [](/\ \E n \in 0..Len(potholes) : SnapshotOf(listing, n)
          /\ NewestFirst(listing))
    /\ [][C7_ListingTaken]_vars

C7_Witness ==
    /\ Len(listing) = 2
    /\ listing[1].timestamp # listing[2].timestamp
    /\ listing[1].id = 1

\* ------------------------------------------------------------------
\* C8 as stated: the flag is set exactly once, so once the one-shot loader
\* has come to its end the flag is true.
\* ------------------------------------------------------------------
LoaderEnded == loader \in {"done", "failed"}

C8_SetExactlyOnce == LoaderEnded => sam_loaded

\* C8 as amended: the flag starts false, goes from false to true at most
\* once (once when the load succeeds, never when it fails), only in the
\* loader's last step, and never goes back to false.
C8_FlagStep ==
    /\ sam_loaded => sam_loaded'
    /\ sam_loaded' # sam_loaded =>
          /\ loader = "assigned" /\ loader' = "done"
          /\ UNCHANGED <<req, calls>>

C8_SetAtMostOnce ==
    /\ ~sam_loaded
    /\ [](sam_loaded => loader = "done")
    /\ [][C8_FlagStep]_vars

C8_Witness == sam_loaded /\ \E r \in Reqs : PastMaskCheck(r)

\* ------------------------------------------------------------------
\* C9: after a failed load the loader stays failed and the flag false, and
\* every request that has arrived is already answered, with the
\* 'SAM not loaded' rejection.
\* ------------------------------------------------------------------
C9_FailedLoadRejectsAll ==
    /\ [](loader = "failed" =>
            /\ ~sam_loaded
            /\ \A r \in Reqs :
                  req[r].pc # "idle" =>
                      Done(r) /\ Outcome(req[r].response) = "ModelNotReady")
    /\ [][loader = "failed" => loader' = "failed" /\ ~sam_loaded']_vars

C9_Witness ==
    /\ loader = "failed"
    /\ \A r \in Reqs : Done(r) /\ Outcome(req[r].response) = "ModelNotReady"

\* ------------------------------------------------------------------
\* C10: a request rejected, or failed in the adapter, the overlay write or
\* the commit, has committed no Report and published no event, and the step
\* that ends it leaves the Reports and the events as they were; after a
\* failed commit the overlay write is the last thing the request did; the
\* Reports are exactly those of the requests that committed, each with all
\* its fields.
\* ------------------------------------------------------------------
RejectedOrFailed(resp) ==
    \/ Outcome(resp) \in {"ModelNotReady", "InvalidInput"}
    \/ /\ Outcome(resp) = "Failed"
       /\ resp.error \in {"float", "Image.open", "set_image", "predict", "save", "commit"}

WholeReport(p) ==
    /\ p.id \in 1..NumReqs
    /\ p.latitude \in Int
    /\ p.longitude \in Int
    /\ p.severity \in {"low", "medium", "high"}
    /\ p.area >= 0
    /\ p.depth_meters >= DepthFloor
    /\ p.image_path \in {f.name : f \in files}
    /\ p.timestamp \in 0..MaxClock
    /\ p.status = "reported"

C10_EndsWithoutReport ==
    \A r \in Reqs :
        (~Done(r) /\ req'[r].pc = "done" /\ RejectedOrFailed(req'[r].response)) =>
            UNCHANGED <<potholes, events>>

C10_FailureLeavesNoReport ==
    /\ [](/\ \A r \in Reqs :
               RejectedOrFailed(req[r].response) =>
                  /\ r \notin Committers /\ r \notin Emitters
                  /\ req[r].response.error = "commit" =>
                        calls[r] = {"set_image", "predict", "save"}
          /\ Len(potholes) = Cardinality(Committers)
          /\ \A i \in 1..Len(potholes) : WholeReport(potholes[i]))
    /\ [][C10_EndsWithoutReport]_vars

C10_Witness ==
    /\ \E r \in Reqs : Done(r) /\ req[r].response.error = "commit"
    /\ \E r \in Reqs : Done(r) /\ req[r].response.error = "predict"
    /\ files # {}
    /\ potholes = <<>>

\* ------------------------------------------------------------------
\* C11: a request with no image, with an image without a name, or with
\* coordinates that are no numbers ends as InvalidInput, having made none
\* of the side-effecting calls.
\* ------------------------------------------------------------------
InvalidInputErrors == {"No image uploaded", "No image selected", "float"}

C11_InvalidInputRejected ==
    \A r \in Reqs :
        (Done(r) /\ req[r].response.error \in InvalidInputErrors) =>
            /\ Outcome(req[r].response) = "InvalidInput"
            /\ calls[r] = {}

\* ------------------------------------------------------------------
\* C12: every committed Report's severity is the tier of its stored area:
\* low under 0.1 m2, medium from 0.1 m2 and under 0.3 m2, high from 0.3 m2.
\* ------------------------------------------------------------------
Tier(area) ==
    CASE 10 * area < SquareMetre -> "low"
      [] 10 * area >= SquareMetre /\ 10 * area < 3 * SquareMetre -> "medium"
      [] 10 * area >= 3 * SquareMetre -> "high"

C12_SeverityIsTierOfArea ==
    \A i \in 1..Len(potholes) : potholes[i].severity = Tier(potholes[i].area)

C12_Witness ==
    /\ \E i \in 1..Len(potholes) :
          10 * potholes[i].area = SquareMetre /\ potholes[i].severity = "medium"
    /\ \E i \in 1..Len(potholes) :
          10 * potholes[i].area = 3 * SquareMetre /\ potholes[i].severity = "high"

\* ------------------------------------------------------------------
\* C15: the step that commits a Report is taken by a request that has
\* written its overlay, and the Report's image_path names that file, which
\* is in the upload folder; so every Report's image_path was written.
\* ------------------------------------------------------------------
Commits(r) == req[r].pc = "saved" /\ req'[r].pc = "committed"

C15_CommitStep ==
    \A r \in Reqs :
        Commits(r) =>
            /\ "save" \in calls[r]
            /\ Len(potholes') = Len(potholes) + 1
            /\ potholes'[Len(potholes')].image_path = req[r].filename
            /\ req[r].filename \in {f.name : f \in files}

C15_OverlayBeforeCommit ==
    /\ [](/\ \A r \in Committers : "save" \in calls[r]
          /\ \A i \in 1..Len(potholes) :
                potholes[i].image_path \in {f.name : f \in files})
    /\ [][C15_CommitStep]_vars

C15_Witness ==
    /\ Len(potholes) = 2
    /\ potholes[1].image_path # potholes[2].image_path
    /\ Cardinality(files) = 2

\* ------------------------------------------------------------------
\* C17: every request that commits gets a Report of its own: the Reports
\* are as many as the requests that committed, their ids differ, and two
\* requests answered with success carry different ids, also when they
\* brought the same image and the same place.
\* ------------------------------------------------------------------
C17_NoDeduplication ==
    /\ Len(potholes) = Cardinality(Committers)
    /\ \A i \in 1..Len(potholes) : ReportsOf(potholes[i].id) = {i}
    /\ \A r, q \in Reqs :
          (r # q /\ Outcome(req[r].response) = "Success"
                 /\ Outcome(req[q].response) = "Success") =>
              req[r].response.pothole_id # req[q].response.pothole_id

C17_Witness ==
    /\ Len(potholes) = 2
    /\ SameFinding(potholes[1], [latitude |-> potholes[2].latitude,
                                 longitude |-> potholes[2].longitude,
                                 area_m2 |-> potholes[2].area,
                                 confidence |-> potholes[2].confidence])
    /\ potholes[1].id # potholes[2].id
    /\ \A r \in Reqs : Outcome(req[r].response) = "Success"

\* ------------------------------------------------------------------
\* C19: whenever the readiness flag is true the predictor is assigned, so
\* a request that has passed the readiness check finds a predictor, and no
\* request ends in a call on None.
\* ------------------------------------------------------------------
C19_PredictorBeforeFlag ==
    /\ sam_loaded => predictor = "SamPredictor"
    /\ \A r \in Reqs :
          /\ req[r].pc \in {"received", "segmenting"} => predictor = "SamPredictor"
          /\ req[r].response.error # "NoneType"

C19_Witness ==
    \E r \in Reqs : "set_image" \in calls[r] /\ "predict" \in calls[r]

\* ------------------------------------------------------------------
\* C13: for every pixel count p <= 0 the area is 0, the severity low and
\* the depth 0.05 m.
\* ------------------------------------------------------------------
C13_TotalOverNonPositive ==
    sample[2].pixels <= 0 =>
        /\ sample[2].area_m2 = 0
        /\ sample[2].severity = "low"
        /\ 20 * sample[2].depth_meters = Metre

\* ------------------------------------------------------------------
\* C14: over the areas a mask can give (pixel counts from 0 up) the depth
\* does not decrease as the area grows, lies between 0.05 m and 0.55 m, is
\* 0.05 m at area 0 and 0.55 m at areas 1.0 and 10.0 m2, and is
\* 0.05 + min(area * 0.5, 0.5).
\* ------------------------------------------------------------------
FromMask(m) == m.pixels >= 0

DepthAsClaimed(m) ==
    2 * m.depth_meters * SquareMetre =
        (Metre \div 10) * SquareMetre + Min(m.area_m2 * Metre, SquareMetre * Metre)

Exported == reply' # reply /\ reply'.route = "export"

C16_ExportStep ==
    Exported =>
        IF reply'.arg[1] \notin 1..Len(potholes)
        THEN reply'.code = 404 /\ reply'.body = <<>>
        ELSE LET p == potholes[reply'.arg[1]] IN
             /\ reply'.code = 200
             /\ reply'.body[1].text.id = p.id
             /\ reply'.body[1].text.latitude = p.latitude
             /\ reply'.body[1].text.longitude = p.longitude
             /\ reply'.body[1].text.severity = p.severity
             /\ reply'.body[1].text.area * SquareMetre = 100 * p.area
             /\ 2 * (reply'.body[1].text.depth * Metre - 100 * p.depth_meters) <= Metre
             /\ 2 * (100 * p.depth_meters - reply'.body[1].text.depth * Metre) < Metre
             /\ reply'.body[1].text.confidence = 10 * p.confidence
             /\ reply'.body[1].text.timestamp = p.timestamp \div TicksPerSec
             /\ (~Exists(p.image_path)) => reply'.body[1].image = {}
             /\ Exists(p.image_path) => reply'.body[1].image # {}

C16_ExportNotFoundOrText == [][C16_ExportStep]_vars

\* an export has answered for a Report whose overlay file is gone
C16_Witness ==
    /\ reply.route = "export"
    /\ reply.code = 200
    /\ reply.arg[1] \in 1..Len(potholes)
    /\ reply.body[1].image = {}
    /\ ~Exists(potholes[reply.arg[1]].image_path)

\* ------------------------------------------------------------------
\* C18: Reports are append-only: no step removes a Report or changes a
\* field of one, the status of every Report is 'reported', and the steps
\* of the read paths leave the Reports as they are.
\* ------------------------------------------------------------------
ReadStep == reply' # reply \/ listing' # listing

C18_Step ==
    /\ Len(potholes') >= Len(potholes)
    /\ \A i \in 1..Len(potholes) : potholes'[i] = potholes[i]
    /\ ReadStep => potholes' = potholes

C18_AppendOnly ==
    /\ [](\A i \in 1..Len(potholes) :
              potholes[i].id = i /\ potholes[i].status = "reported")
    /\ [][C18_Step]_vars

\* two Reports, the first exported and both listed
C18_Witness ==
    /\ Len(potholes) = 2
    /\ Len(listing) = 2
    /\ reply.route = "export"
    /\ reply.arg = <<1>>
    /\ reply.code = 200

====
